---- MODULE Spec2Model ----
(***************************************************************************)
(* seismon/models.py: the earthquake feed scanner (ingest_earthquakes),    *)
(* the prediction reconciler (run_seismon, compute_predictions) and the    *)
(* scheduler loop of __main__, over a feed directory tree and the three    *)
(* tables earthquakes, ifos and predictions.                               *)
(*                                                                         *)
(* Times are whole seconds.  The feed tree is root/<event>/<xx>/<time      *)
(* partition>; the <xx> level holds nothing but the time partitions and is *)
(* folded into the event folder.                                           *)
(***************************************************************************)
EXTENDS Integers, Sequences, FiniteSets, TLC

VARIABLES
    now,          \* wall clock, seconds
    feed,         \* the feed directory tree under config["pdlcient"]["directory"]
    earthquakes,  \* table earthquakes, rows in insertion order
    ifos,         \* table ifos, rows in insertion order
    predictions,  \* table predictions, rows in insertion order
    pc,           \* where the process is: stopped, purge, scan, reconcile, sleep
    args,         \* the command line flags of the running process
    cycle,        \* number of the run_seismon call of this process (saturating)
    todo,         \* ingest_earthquakes: time folders still to visit, in scan order
    sub,          \* ingest_earthquakes: "check" (before the marker) or "parse"
    ei,           \* run_seismon: index of eq in eqs
    di,           \* run_seismon: index of det in ifos
    log           \* steps of the current run_seismon call that have finished

vars == <<now, feed, earthquakes, ifos, predictions, pc, args, cycle, todo, sub, ei, di, log>>

----------------------------------------------------------------------------
\* Bounds of the model

\* number of time-partition directories the feed holds at the start
MaxDirs == 2

\* number of days the clock may advance
MaxTicks == 1

\* the cycle counter saturates here
MaxCycles == 2

----------------------------------------------------------------------------
\* Time

Day == 24 * 3600

T0 == 20 * Day

\* parser.add_argument('-l', '--lookback', default=7)
lookback == 7

\* lookbackTD = TimeDelta(lookback, format='jd')
lookbackTD == lookback * Day

\* find ... -mtime +7
PurgeDays == 7

----------------------------------------------------------------------------
\* The feed

Folders == {"ci38", "us70"}

TimeParts == {1, 2}

NoDir == [exists |-> FALSE, eqxml |-> "absent", quakeml |-> "absent", marker |-> FALSE, mtime |-> 0]

NoFolder == [exists |-> FALSE, mtime |-> 0, tfs |-> [t \in TimeParts |-> NoDir]]

Dir(e, q, m) == [exists |-> TRUE, eqxml |-> e, quakeml |-> q, marker |-> FALSE, mtime |-> m]

\* The time-partition directories a feed starts with: the report files they hold
\* and the directory's modification time.
InitDirs ==
    { Dir("qA", "absent", T0),
      Dir("absent", "qB", T0),
      Dir("qOld", "absent", T0),
      Dir("qNoMag", "qA", T0),
      Dir("absent", "absent", T0),
      Dir("qX", "absent", T0),
      Dir("qA", "absent", T0 - 8 * Day) }

\* The time partitions an event folder may start with.
InitParts(f) == IF f = "ci38" THEN {1, 2} ELSE {1}

DirCount(fd) == Cardinality({s \in Folders \X TimeParts : fd[s[1]].tfs[s[2]].exists})

\* The feeds built of the given time-partition directories.
FeedsOf(dirs, mtimes) ==
    { fd \in [Folders -> [exists : BOOLEAN, mtime : mtimes \cup {0},
                          tfs : [TimeParts -> dirs \cup {NoDir}]]] :
        /\ DirCount(fd) <= MaxDirs
        /\ \A f \in Folders, t \in TimeParts : fd[f].tfs[t].exists => t \in InitParts(f)
        /\ \A f \in Folders :
              /\ fd[f].exists <=> (\E t \in TimeParts : fd[f].tfs[t].exists)
              /\ fd[f].exists <=> fd[f].mtime # 0
              \* an event folder is as old as its partitions, or was touched since
              /\ fd[f].mtime = T0 - 8 * Day =>
                    \A t \in TimeParts : fd[f].tfs[t].exists => fd[f].tfs[t].mtime = T0 - 8 * Day }

InitFeeds == FeedsOf(InitDirs, {T0 - 8 * Day, T0})

----------------------------------------------------------------------------
\* The report parser (seismon.eqmon.read_eqxml / read_quakeml): the structured
\* attributes of a report file, or no attributes.  isList is attributeDic == [],
\* keys is the set of keys the dictionary holds.

AllKeys == {"Time", "Sent", "Depth", "Latitude", "Longitude", "Magnitude", "GPS", "eventName"}

Attributes(name, keys, time, depth, lat, lon, mag) ==
    [isList |-> FALSE, keys |-> keys, eventName |-> name, Time |-> time, Sent |-> time + 60,
     Depth |-> depth, Latitude |-> lat, Longitude |-> lon, Magnitude |-> mag]

EmptyList == [isList |-> TRUE, keys |-> {}, eventName |-> "", Time |-> 0, Sent |-> 0,
              Depth |-> 0, Latitude |-> 0, Longitude |-> 0, Magnitude |-> 0]

read_report(file, eventName) ==
    CASE file = "qA"     -> Attributes(eventName, AllKeys, T0 - Day, 10, 34, -118, 5)
      [] file = "qB"     -> Attributes(eventName, AllKeys, T0 - lookbackTD, 800, 36, 140, 6)
      [] file = "qOld"   -> Attributes(eventName, AllKeys, T0 - lookbackTD - 1, 10, 34, -118, 5)
      [] file = "qX"     -> Attributes(eventName, AllKeys, T0 - Day, 10, 31, -90, 10)
      [] file = "qNoP"   -> Attributes(eventName, AllKeys, T0 - Day, 650, 34, -118, 5)
      [] file = "qNoS"   -> Attributes(eventName, AllKeys, T0 - Day, 550, 34, -118, 5)
      [] file = "qNone"  -> Attributes(eventName, AllKeys, T0 - Day, 450, 34, -118, 5)
      [] file = "qNoMag" -> Attributes(eventName, AllKeys \ {"Magnitude"}, T0 - Day, 10, 34, -118, 0)
      [] OTHER           -> EmptyList

read_eqxml(file, eventName) == read_report(file, eventName)

read_quakeml(file, eventName) == read_report(file, eventName)

----------------------------------------------------------------------------
\* The tables

\* ingest_ifos: the rows of table ifos (coordinates in whole degrees)
ingest_ifos ==
    << [ifo |-> "LHO",   lat |-> 47, lon |-> -120],
       [ifo |-> "LLO",   lat |-> 30, lon |-> -91],
       [ifo |-> "GEO",   lat |-> 52, lon |-> 10],
       [ifo |-> "VIRGO", lat |-> 44, lon |-> 11],
       [ifo |-> "KAGRA", lat |-> 36, lon |-> 137] >>

\* Earthquake(depth=..., lat=..., lon=..., event_id=..., magnitude=..., date=..., sent=...)
Earthquake(attributeDic) ==
    [event_id |-> attributeDic.eventName, lat |-> attributeDic.Latitude,
     lon |-> attributeDic.Longitude, depth |-> attributeDic.Depth,
     magnitude |-> attributeDic.Magnitude, date |-> attributeDic.Time,
     sent |-> attributeDic.Sent]

\* Earthquake.query.filter_by(event_id=...).all()
EarthquakesById(eqs, event_id) == {i \in 1..Len(eqs) : eqs[i].event_id = event_id}

\* Prediction.query.filter_by(event_id=..., ifo=...).all()
PredictionsFor(preds, event_id, ifo) ==
    {i \in 1..Len(preds) : preds[i].event_id = event_id /\ preds[i].ifo = ifo}

----------------------------------------------------------------------------
\* The travel-time phase

Abs(x) == IF x < 0 THEN -x ELSE x

\* obspy gps2dist_azimuth: the distance in metres between two points; here
\* 70 km for each degree of latitude and of longitude between them.
gps2dist_azimuth(eqlat, eqlon, ifolat, ifolon) ==
    70000 * (Abs(eqlat - ifolat) + Abs(eqlon - ifolon))

\* The deepest source (km) the travel-time model accepts.
MaxSourceDepth == 700

\* TauPyModel(model="iasp91").get_travel_times: raises for a source depth the
\* model does not cover, else the arrivals in order of arrival.  The source
\* depth picks the outcome: below 400 km compressional and shear arrivals,
\* then no arrival at all, then compressional arrivals only, then a shear
\* arrival only.
get_travel_times(depth, distance) ==
    IF depth > MaxSourceDepth
    THEN [raises |-> TRUE, arrivals |-> << >>]
    ELSE IF depth > 600
    THEN [raises |-> FALSE, arrivals |-> << [name |-> "S", time |-> distance \div 4000] >>]
    ELSE IF depth > 500
    THEN [raises |-> FALSE,
          arrivals |-> << [name |-> "P", time |-> distance \div 8000],
                          [name |-> "pP", time |-> distance \div 7000] >>]
    ELSE IF depth > 400
    THEN [raises |-> FALSE, arrivals |-> << >>]
    ELSE [raises |-> FALSE,
          arrivals |-> << [name |-> "P", time |-> distance \div 8000],
                          [name |-> "pP", time |-> distance \div 7000],
                          [name |-> "S", time |-> distance \div 4000] >>]

\* phase.name.lower()[0]
FirstLower(name) ==
    CASE name \in {"P", "pP", "PKP", "Pn"} -> "p"
      [] name \in {"S", "sS", "SKS", "Sn"} -> "s"
      [] OTHER -> "x"

\* The first arrival whose name starts with the letter, -1 when there is none.
FirstPhaseTime(arrivals, letter, eqtime) ==
    LET hits == {i \in 1..Len(arrivals) : FirstLower(arrivals[i].name) = letter}
    IN  IF hits = {} THEN -1
        ELSE eqtime + arrivals[CHOOSE i \in hits : \A j \in hits : i <= j].time

\* FallbackTime taking the fastest surface wave
FallbackTime_Fastest(Rtwotime, RthreePointFivetime, Rfivetime) == Rfivetime

\* except: Ptime, Stime = Rtwotime, Rtwotime
FallbackTime(Rtwotime, RthreePointFivetime, Rfivetime) == Rtwotime

\* compute_traveltimes with the speeds of Rtwotime and Rfivetime exchanged
compute_traveltimes_Swapped(earthquake, ifo) ==
    LET eqtime   == earthquake.date
        distance == gps2dist_azimuth(earthquake.lat, earthquake.lon, ifo.lat, ifo.lon)
        Rtwotime == eqtime + distance \div 5000
        RthreePointFivetime == eqtime + distance \div 3500
        Rfivetime == eqtime + distance \div 2000
        lookup   == get_travel_times(earthquake.depth, distance)
        Ptime    == IF lookup.raises
                    THEN FallbackTime(Rtwotime, RthreePointFivetime, Rfivetime)
                    ELSE FirstPhaseTime(lookup.arrivals, "p", eqtime)
        Stime    == IF lookup.raises
                    THEN FallbackTime(Rtwotime, RthreePointFivetime, Rfivetime)
                    ELSE FirstPhaseTime(lookup.arrivals, "s", eqtime)
    IN  [raised |-> (Ptime = -1 \/ Stime = -1),
         Dist |-> distance \div 1000, Ptime |-> Ptime, Stime |-> Stime,
         Rtwotime |-> Rtwotime, RthreePointFivetime |-> RthreePointFivetime,
         Rfivetime |-> Rfivetime]

\* compute_traveltimes: raised when .datetime is read off the integer -1
compute_traveltimes(earthquake, ifo) ==
    LET eqtime   == earthquake.date
        distance == gps2dist_azimuth(earthquake.lat, earthquake.lon, ifo.lat, ifo.lon)
        Rtwotime == eqtime + distance \div 2000
        RthreePointFivetime == eqtime + distance \div 3500
        Rfivetime == eqtime + distance \div 5000
        lookup   == get_travel_times(earthquake.depth, distance)
        Ptime    == IF lookup.raises
                    THEN FallbackTime(Rtwotime, RthreePointFivetime, Rfivetime)
                    ELSE FirstPhaseTime(lookup.arrivals, "p", eqtime)
        Stime    == IF lookup.raises
                    THEN FallbackTime(Rtwotime, RthreePointFivetime, Rfivetime)
                    ELSE FirstPhaseTime(lookup.arrivals, "s", eqtime)
    IN  [raised |-> (Ptime = -1 \/ Stime = -1),
         Dist |-> distance \div 1000, Ptime |-> Ptime, Stime |-> Stime,
         Rtwotime |-> Rtwotime, RthreePointFivetime |-> RthreePointFivetime,
         Rfivetime |-> Rfivetime]

----------------------------------------------------------------------------
\* The amplitude phase

\* if ifo == "LLO": ifo is a row of table ifos, which never equals a string
IfoEqualsName(ifo, name) == FALSE

trainFile(ifo) ==
    IF IfoEqualsName(ifo, "LLO") THEN "LLO_processed_USGS_global_EQ_catalogue.csv"
    ELSE IF IfoEqualsName(ifo, "Virgo") THEN "LHO_processed_USGS_global_EQ_catalogue.csv"
    ELSE "LHO_processed_USGS_global_EQ_catalogue.csv"

\* locklossMotionThresh=10*1e-6, in nm/s
locklossMotionThresh == 10000

\* The largest magnitude the training catalogues cover.
MaxTrainedMagnitude == 9

\* seismon.eqmon.make_prediction: the predicted peak amplitude (nm/s) and the
\* lockloss tag, or an error for a magnitude the training data does not cover
\* at a site within 1000 km of the event.
make_prediction(trainData, eqlat, eqlon, mag, depth, ifolat, ifolon, thresh) ==
    LET km    == gps2dist_azimuth(eqlat, eqlon, ifolat, ifolon) \div 1000
        scale == IF trainData = "LLO_processed_USGS_global_EQ_catalogue.csv" THEN 30000 ELSE 20000
        amp   == (mag * scale * 100) \div (100 + km)
    IN  [raises |-> mag > MaxTrainedMagnitude /\ km < 1000,
         predicted_peak_amplitude |-> amp,
         LocklossTag |-> amp > thresh]

\* compute_amplitudes answering an error of make_prediction with its numbers
compute_amplitudes_Default(earthquake, ifo) ==
    LET r == make_prediction(trainFile(ifo), earthquake.lat, earthquake.lon,
                             earthquake.magnitude, earthquake.depth, ifo.lat, ifo.lon,
                             locklossMotionThresh)
    IN  [raised |-> FALSE, Rfamp |-> r.predicted_peak_amplitude,
         Lockloss |-> r.LocklossTag]

\* compute_amplitudes: the amplitude and the lockloss flag, or the error of make_prediction
compute_amplitudes(earthquake, ifo) ==
    LET r == make_prediction(trainFile(ifo), earthquake.lat, earthquake.lon,
                             earthquake.magnitude, earthquake.depth, ifo.lat, ifo.lon,
                             locklossMotionThresh)
    IN  [raised |-> r.raises, Rfamp |-> r.predicted_peak_amplitude,
         Lockloss |-> r.LocklossTag]

\* compute_predictions going on to the merge when compute_amplitudes fails,
\* with the amplitude and the lockloss flag left unset
compute_predictions_Partial(earthquake, ifo) ==
    LET tt  == compute_traveltimes(earthquake, ifo)
        amp == compute_amplitudes(earthquake, ifo)
    IN  [raised |-> tt.raised,
         row |-> [event_id |-> earthquake.event_id, ifo |-> ifo.ifo, D |-> tt.Dist,
                  P |-> tt.Ptime, S |-> tt.Stime, R2p0 |-> tt.Rtwotime,
                  R3p5 |-> tt.RthreePointFivetime, R5p0 |-> tt.Rfivetime,
                  Rfamp |-> IF amp.raised THEN -1 ELSE amp.Rfamp,
                  Lockloss |-> IF amp.raised THEN -1 ELSE IF amp.Lockloss THEN 1 ELSE 0]]

\* compute_predictions: the row merged and committed, or the error that ends it
compute_predictions(earthquake, ifo) ==
    LET tt  == compute_traveltimes(earthquake, ifo)
        amp == compute_amplitudes(earthquake, ifo)
    IN  [raised |-> tt.raised \/ amp.raised,
         row |-> [event_id |-> earthquake.event_id, ifo |-> ifo.ifo, D |-> tt.Dist,
                  P |-> tt.Ptime, S |-> tt.Stime, R2p0 |-> tt.Rtwotime,
                  R3p5 |-> tt.RthreePointFivetime, R5p0 |-> tt.Rfivetime,
                  Rfamp |-> amp.Rfamp, Lockloss |-> IF amp.Lockloss THEN 1 ELSE 0]]

----------------------------------------------------------------------------
\* The feed scanner, ingest_earthquakes

\* sorted(glob(dataFolder/*)) of one event folder
timeFolders(fd, f) ==
    LET have == {t \in TimeParts : fd[f].tfs[t].exists}
        Sorted[S \in SUBSET TimeParts] ==
            IF S = {} THEN << >>
            ELSE LET m == CHOOSE x \in S : \A y \in S : x <= y
                 IN  <<(<<f, m>>)>> \o Sorted[S \ {m}]
    IN  Sorted[have]

\* The visits of one scan for one enumeration of the event folders.
Visits(fd, folders) ==
    LET Go[i \in 1..(Len(folders) + 1)] ==
            IF i > Len(folders) THEN << >>
            ELSE timeFolders(fd, folders[i]) \o Go[i + 1]
    IN  Go[1]

\* glob(root/*): the event folders, in any order
GlobOrders(fd) ==
    LET have == {f \in Folders : fd[f].exists}
    IN  {s \in [1..Cardinality(have) -> have] : \A i, j \in 1..Cardinality(have) : s[i] = s[j] => i = j}

\* if not repeat: if os.path.isfile(eqxml.txt): return
SkipOnMarker(repeat, dir) == ~repeat /\ dir.marker

\* WriteMarker writing "Done" over the report eqxml.xml instead of eqxml.txt
WriteMarker_Clobber(dir, t) ==
    [dir EXCEPT !.eqxml = "Done", !.mtime = t]

\* f = open(eqxml.txt, "w"); f.write("Done"); f.close()
WriteMarker(dir, t) ==
    [dir EXCEPT !.marker = TRUE, !.mtime = IF dir.marker THEN dir.mtime ELSE t]

\* ParseDir looking for quakeml.xml first
ParseDir_QuakemlFirst(dir, eventName) ==
    IF dir.quakeml # "absent" THEN read_quakeml(dir.quakeml, eventName)
    ELSE IF dir.eqxml # "absent" THEN read_eqxml(dir.eqxml, eventName)
    ELSE EmptyList

\* if os.path.isfile(eqxmlfile): ... elif os.path.isfile(quakemlfile): ...
ParseDir(dir, eventName) ==
    IF dir.eqxml # "absent" THEN read_eqxml(dir.eqxml, eventName)
    ELSE IF dir.quakeml # "absent" THEN read_quakeml(dir.quakeml, eventName)
    ELSE EmptyList

\* if attributeDic == []: return
\* if (not "GPS" in attributeDic) or (not "Magnitude" in attributeDic): return
Malformed(attributeDic) ==
    \/ attributeDic.isList
    \/ "GPS" \notin attributeDic.keys
    \/ "Magnitude" \notin attributeDic.keys

\* TooOld rejecting the event that is exactly lookback old
TooOld_Inclusive(t, date) == t - date >= lookbackTD

\* if Time.now() - date > lookbackTD: continue
TooOld(t, date) == t - date > lookbackTD

\* AlreadyRecorded without the look at the table
AlreadyRecorded_Unchecked(eqs, event_id) == FALSE

\* eqs = Earthquake.query.filter_by(event_id=...).all(); if len(eqs) > 0: continue
AlreadyRecorded(eqs, event_id) == Cardinality(EarthquakesById(eqs, event_id)) > 0

\* repeat=True when the process was started with --init_db
Repeat == args.init_db

\* PurgeMatches on the age in seconds, without find's truncation to whole days
PurgeMatches_Seconds(mtime, t) == t - mtime > PurgeDays * Day

\* find root/* -type d -mtime +7: the age in whole days exceeds 7
PurgeMatches(mtime, t) == (t - mtime) \div Day > PurgeDays

\* Purged looking at the event folders only, not below them
Purged_TopLevel(fd, t) ==
    [f \in Folders |->
        IF fd[f].exists /\ PurgeMatches(fd[f].mtime, t) THEN NoFolder ELSE fd[f]]

\* find root/* -type d -mtime +7 -exec rm -rf {} \;
Purged(fd, t) ==
    [f \in Folders |->
        IF ~fd[f].exists THEN fd[f]
        ELSE IF PurgeMatches(fd[f].mtime, t) THEN NoFolder
        ELSE [fd[f] EXCEPT
                 !.tfs = [p \in TimeParts |->
                     IF fd[f].tfs[p].exists /\ PurgeMatches(fd[f].tfs[p].mtime, t)
                     THEN NoDir ELSE fd[f].tfs[p]],
                 \* rm -rf of an entry is a modification of the folder holding it
                 !.mtime = IF \E p \in TimeParts :
                                 fd[f].tfs[p].exists /\ PurgeMatches(fd[f].tfs[p].mtime, t)
                           THEN t ELSE @]]

----------------------------------------------------------------------------
\* The process

NoArgs == [init_db |-> FALSE, purge |-> FALSE]

InitWith(feeds) ==
    /\ now = T0
    /\ feed \in feeds
    /\ earthquakes = << >>
    /\ ifos = ingest_ifos
    /\ predictions = << >>
    /\ pc = "stopped"
    /\ args = NoArgs
    /\ cycle = 0
    /\ todo = << >>
    /\ sub = "check"
    /\ ei = 1
    /\ di = 1
    /\ log = << >>

Init == InitWith(InitFeeds)

\* The process ends (killed, or an error nobody catches): its locals are gone.
Stopped ==
    /\ pc' = "stopped"
    /\ args' = NoArgs
    /\ cycle' = 0
    /\ todo' = << >>
    /\ sub' = "check"
    /\ ei' = 1
    /\ di' = 1
    /\ log' = << >>

\* __main__ up to the loop: with --init_db, drop_all, create_all, ingest_ifos
Start(init_db, purge) ==
    /\ pc = "stopped"
    /\ args' = [init_db |-> init_db, purge |-> purge]
    /\ IF init_db
       THEN /\ earthquakes' = << >>
            /\ predictions' = << >>
            /\ ifos' = ingest_ifos
       ELSE UNCHANGED <<earthquakes, predictions, ifos>>
    /\ pc' = "purge"
    /\ cycle' = 1
    /\ UNCHANGED <<now, feed, todo, sub, ei, di, log>>

\* Purge with the purge command left out of the head of run_seismon
Purge_NotFirst ==
    /\ pc = "purge"
    /\ \E folders \in GlobOrders(feed) : todo' = Visits(feed, folders)
    /\ sub' = "check"
    /\ pc' = "scan"
    /\ UNCHANGED <<now, feed, log, earthquakes, ifos, predictions, args, cycle, ei, di>>

\* run_seismon, up to the call of ingest_earthquakes and its glob of the root
Purge ==
    /\ pc = "purge"
    /\ feed' = IF args.purge THEN Purged(feed, now) ELSE feed
    /\ log' = IF args.purge THEN Append(log, "purge") ELSE log
    /\ \E folders \in GlobOrders(feed') : todo' = Visits(feed', folders)
    /\ sub' = "check"
    /\ pc' = "scan"
    /\ UNCHANGED <<now, earthquakes, ifos, predictions, args, cycle, ei, di>>

\* ingest_earthquakes returns; run_seismon goes on to its queries
ScanReturns ==
    /\ pc' = "reconcile"
    /\ todo' = << >>
    /\ sub' = "check"
    /\ log' = Append(log, "scan")
    /\ ei' = 1
    /\ di' = 1

\* one time folder, up to the marker
ScanCheck ==
    /\ pc = "scan"
    /\ sub = "check"
    /\ IF todo = << >>
       THEN ScanReturns /\ UNCHANGED feed
       ELSE LET f   == Head(todo)[1]
                t   == Head(todo)[2]
                dir == feed[f].tfs[t]
            IN  IF SkipOnMarker(Repeat, dir)
                THEN ScanReturns /\ UNCHANGED feed
                ELSE /\ feed' = [feed EXCEPT ![f].tfs[t] = WriteMarker(dir, now)]
                     /\ sub' = "parse"
                     /\ UNCHANGED <<pc, todo, log, ei, di>>
    /\ UNCHANGED <<now, earthquakes, ifos, predictions, args, cycle>>

\* ScanParse going on to the next time folder after a malformed report
ScanParse_SkipMalformed ==
    /\ pc = "scan"
    /\ sub = "parse"
    /\ LET f   == Head(todo)[1]
           t   == Head(todo)[2]
           attributeDic == ParseDir(feed[f].tfs[t], f)
       IN  /\ earthquakes' =
                 IF Malformed(attributeDic) THEN earthquakes
                 ELSE IF TooOld(now, attributeDic.Time) THEN earthquakes
                 ELSE IF AlreadyRecorded(earthquakes, attributeDic.eventName) THEN earthquakes
                 ELSE Append(earthquakes, Earthquake(attributeDic))
           /\ todo' = Tail(todo)
           /\ sub' = "check"
           /\ UNCHANGED <<pc, log, ei, di>>
    /\ UNCHANGED <<now, feed, ifos, predictions, args, cycle>>

\* one time folder, from the parse to the commit
ScanParse ==
    /\ pc = "scan"
    /\ sub = "parse"
    /\ LET f   == Head(todo)[1]
           t   == Head(todo)[2]
           attributeDic == ParseDir(feed[f].tfs[t], f)
       IN  IF Malformed(attributeDic)
           THEN ScanReturns /\ UNCHANGED earthquakes
           ELSE /\ earthquakes' =
                      IF TooOld(now, attributeDic.Time) THEN earthquakes
                      ELSE IF AlreadyRecorded(earthquakes, attributeDic.eventName) THEN earthquakes
                      ELSE Append(earthquakes, Earthquake(attributeDic))
                /\ todo' = Tail(todo)
                /\ sub' = "check"
                /\ UNCHANGED <<pc, log, ei, di>>
    /\ UNCHANGED <<now, feed, ifos, predictions, args, cycle>>

\* LoopDone stopping one event early
LoopDone_OffByOne(i, eqs) == i >= Len(eqs)

\* for eq in eqs: the loop has run off the end of eqs
LoopDone(i, eqs) == i > Len(eqs)

\* NeedsPrediction without the look at the table
NeedsPrediction_Unchecked(preds, event_id, ifo) == TRUE

\* if len(preds) == 0: compute_predictions(eq, det)
NeedsPrediction(preds, event_id, ifo) == Cardinality(PredictionsFor(preds, event_id, ifo)) = 0

\* Prediction.query.filter_by(...).one() raises unless exactly one row matches
OneRaises(preds, event_id, ifo) == Cardinality(PredictionsFor(preds, event_id, ifo)) # 1

\* run_seismon: one (eq, det) of the loops, or the return when they are done.
\* A pair without a row takes two steps, compute_traveltimes and then
\* compute_amplitudes with the merge and the commit (sub = "amp" in between).
Reconcile ==
    /\ pc = "reconcile"
    /\ IF LoopDone(ei, earthquakes)
       THEN /\ pc' = "sleep"
            /\ log' = Append(log, "reconcile")
            /\ UNCHANGED <<predictions, args, cycle, todo, sub, ei, di>>
       ELSE IF di > Len(ifos)
       THEN /\ ei' = ei + 1
            /\ di' = 1
            /\ UNCHANGED <<predictions, pc, args, cycle, todo, sub, log>>
       ELSE LET eq   == earthquakes[ei]
                det  == ifos[di]
                need == NeedsPrediction(predictions, eq.event_id, det.ifo)
                r    == compute_predictions(eq, det)
                after == IF sub = "amp" /\ ~r.raised THEN Append(predictions, r.row) ELSE predictions
            IN  IF sub = "check" /\ need
                THEN IF compute_traveltimes(eq, det).raised
                     THEN /\ predictions' = predictions
                          /\ Stopped
                     ELSE /\ sub' = "amp"
                          /\ UNCHANGED <<predictions, pc, args, cycle, todo, ei, di, log>>
                ELSE IF (sub = "amp" /\ r.raised) \/ OneRaises(after, eq.event_id, det.ifo)
                THEN /\ predictions' = after
                     /\ Stopped
                ELSE /\ predictions' = after
                     /\ sub' = "check"
                     /\ IF di = Len(ifos)
                        THEN ei' = ei + 1 /\ di' = 1
                        ELSE ei' = ei /\ di' = di + 1
                     /\ UNCHANGED <<pc, args, cycle, todo, log>>
    /\ UNCHANGED <<now, feed, earthquakes, ifos>>

\* time.sleep(15), then the next run_seismon
Sleep ==
    /\ pc = "sleep"
    /\ pc' = "purge"
    /\ cycle' = IF cycle < MaxCycles THEN cycle + 1 ELSE cycle
    /\ log' = << >>
    /\ UNCHANGED <<now, feed, earthquakes, ifos, predictions, args, todo, sub, ei, di>>

\* A day passes while the process sleeps or is down.
Tick ==
    /\ pc \in {"sleep", "stopped"}
    /\ now < T0 + MaxTicks * Day
    /\ now' = now + Day
    /\ UNCHANGED <<feed, earthquakes, ifos, predictions, pc, args, cycle, todo, sub, ei, di, log>>

\* The process is killed.
Kill ==
    /\ pc # "stopped"
    /\ Stopped
    /\ UNCHANGED <<now, feed, earthquakes, ifos, predictions>>

Next ==
    \/ \E init_db \in BOOLEAN, purge \in BOOLEAN : Start(init_db, purge)
    \/ Purge
    \/ ScanCheck
    \/ ScanParse
    \/ Reconcile
    \/ Sleep
    \/ Tick
    \/ Kill

Spec == Init /\ [][Next]_vars

\* A running process goes on with its next statement; nothing promises that a
\* process is started or killed, or that time passes.
Running == Purge \/ ScanCheck \/ ScanParse \/ Reconcile \/ Sleep

\* The feeds of the fair specification: recent directories holding a
\* well-formed report, a report without magnitude, or no report.
FairFeeds ==
    FeedsOf({Dir("qA", "absent", T0), Dir("qNoMag", "qA", T0), Dir("absent", "absent", T0)}, {T0})

FairInit == InitWith(FairFeeds)

FairSpec == FairInit /\ [][Next]_vars /\ WF_vars(Running)

----------------------------------------------------------------------------
\* Shorthands of the properties

IfoNames == {ingest_ifos[i].ifo : i \in 1..Len(ingest_ifos)}

\* A step of a process start that drops and recreates the tables.
Reinitializes == pc = "stopped" /\ pc' = "purge" /\ args'.init_db

\* Every row of a table is still there, at its place and unchanged.
RowsKept(old, new) == Len(new) >= Len(old) /\ \A i \in 1..Len(old) : new[i] = old[i]

\* C1: the Prediction Store holds at most one row for every (event, detector)
\* pair, and no step other than a start with --init_db changes or removes a
\* row it holds: later cycles, also of a restarted process, leave it as it is.
C1_AtMostOncePrediction ==
    /\ [](\A f \in Folders, d \in IfoNames : Cardinality(PredictionsFor(predictions, f, d)) <= 1)
    /\ [][~Reinitializes => RowsKept(predictions, predictions')]_vars

\* C1 witness: a restarted process without --init_db has gone over a pair
\* whose row an earlier process stored, and the pair still has its one row.
C1_Witness ==
    /\ pc = "reconcile" /\ cycle = 1 /\ ~args.init_db
    /\ ei = 1 /\ di = 2
    /\ Len(predictions) >= 2
    /\ Cardinality(PredictionsFor(predictions, earthquakes[1].event_id, ifos[1].ifo)) = 1

\* C2: when run_seismon has returned (the process is at its sleep), every
\* event of the Event Store has exactly one Prediction row with every detector.
C2_EveryPairAfterCycle ==
    pc = "sleep" =>
        \A i \in 1..Len(earthquakes), j \in 1..Len(ifos) :
            Cardinality(PredictionsFor(predictions, earthquakes[i].event_id, ifos[j].ifo)) = 1

\* C2 witness: the first cycle of a process started with --init_db returned
\* with two events, both inserted by this cycle's scan.
C2_Witness ==
    /\ pc = "sleep" /\ cycle = 1 /\ args.init_db
    /\ Len(earthquakes) = 2
    /\ Len(predictions) = 2 * Len(ifos)

\* The event folder holds a well-formed report whose origin is within the
\* lookback window.
Reported(f) ==
    \E t \in TimeParts :
        /\ feed[f].exists /\ feed[f].tfs[t].exists
        /\ ~Malformed(ParseDir(feed[f].tfs[t], f))
        /\ ~TooOld(now, ParseDir(feed[f].tfs[t], f).Time)

\* C3: while the loop keeps cycling, an event with a well-formed report in the
\* feed and its origin within the lookback window gets its one row in the
\* Event Store.
C3_EveryEventRecorded ==
    \A f \in Folders :
        (pc # "stopped" /\ Reported(f)) ~>
            (pc = "stopped" \/ ~Reported(f) \/ Cardinality(EarthquakesById(earthquakes, f)) = 1)

\* The time folder the scan is at.
AtDir == feed[Head(todo)[1]].tfs[Head(todo)[2]]

\* The scan is at a time folder, before the marker test.
AtCheck == pc = "scan" /\ sub = "check" /\ todo # << >>

\* C4: a scan that follows a finished scan of the same process, with no purge
\* in between, leaves the Event Store as the first scan left it.
C4_SecondScanAddsNothing ==
    [][(pc = "scan" /\ cycle >= 2 /\ ~args.purge) => earthquakes' = earthquakes]_vars

\* A time folder later in this scan is unmarked and holds a well-formed report
\* of an event within the lookback window that is not recorded.
LaterUnrecorded ==
    \E k \in 2..Len(todo) :
        LET f   == todo[k][1]
            dir == feed[f].tfs[todo[k][2]]
        IN  /\ ~dir.marker
            /\ ~Malformed(ParseDir(dir, f))
            /\ now - ParseDir(dir, f).Time <= lookbackTD
            /\ EarthquakesById(earthquakes, f) = {}

\* C5: a scan without the full-reingest flag that meets a marked time folder
\* skips that folder only and goes on to the folders after it, where an
\* unrecorded event waits.
C5_OnlyMarkedDirSkipped ==
    [][(AtCheck /\ ~args.init_db /\ AtDir.marker /\ LaterUnrecorded /\ pc' # "stopped")
          => (pc' = "scan" /\ todo' = Tail(todo))]_vars

\* The rows a step adds to a table.
Added(old, new) == {new[i] : i \in (Len(old) + 1)..Len(new)}

\* C6: no step inserts an event whose origin is more than lookback days before
\* the time of the scan; and the scanner, parsing a well-formed report of an
\* unrecorded event that is not older than that, inserts it.
C6_LookbackBound ==
    [][/\ \A row \in Added(earthquakes, earthquakes') : now - row.date <= lookback * Day
       /\ (/\ pc = "scan" /\ sub = "parse" /\ pc' # "stopped"
           /\ ~Malformed(ParseDir(AtDir, Head(todo)[1]))
           /\ now - ParseDir(AtDir, Head(todo)[1]).Time <= lookback * Day
           /\ EarthquakesById(earthquakes, Head(todo)[1]) = {})
          => /\ Len(earthquakes') = Len(earthquakes) + 1
             /\ earthquakes'[Len(earthquakes')].event_id = Head(todo)[1]
             /\ earthquakes'[Len(earthquakes')].date = ParseDir(AtDir, Head(todo)[1]).Time]_vars

\* C6 witness: an event exactly lookback days old is in the Event Store, and a
\* parsed report one second older has left no row.
C6_Witness ==
    /\ \E i \in 1..Len(earthquakes) : now - earthquakes[i].date = lookback * Day
    /\ \E f \in Folders, t \in TimeParts :
          /\ feed[f].tfs[t].exists /\ feed[f].tfs[t].marker
          /\ feed[f].tfs[t].eqxml = "qOld"
          /\ EarthquakesById(earthquakes, f) = {}
    /\ pc = "sleep"

\* C7: the Event Store never holds two rows with one identifier, and no step
\* other than a start with --init_db changes or removes a row it holds.
C7_EventRowsUniqueAndFixed ==
    /\ [](\A f \in Folders : Cardinality(EarthquakesById(earthquakes, f)) <= 1)
    /\ [][~Reinitializes => RowsKept(earthquakes, earthquakes')]_vars

\* C7 witness: a cycle has parsed two reports of one event that differ in
\* their attributes; the one row is that of the first report.
C7_Witness ==
    /\ pc = "sleep"
    /\ \E f \in Folders :
          /\ feed[f].tfs[1].exists /\ feed[f].tfs[1].marker
          /\ feed[f].tfs[2].exists /\ feed[f].tfs[2].marker
          /\ ~Malformed(ParseDir(feed[f].tfs[1], f))
          /\ ~Malformed(ParseDir(feed[f].tfs[2], f))
          /\ ParseDir(feed[f].tfs[1], f).Depth # ParseDir(feed[f].tfs[2], f).Depth
          /\ \E i \in 1..Len(earthquakes) : earthquakes[i] = Earthquake(ParseDir(feed[f].tfs[1], f))
          /\ Cardinality(EarthquakesById(earthquakes, f)) = 1

\* C8: every Prediction row holds the distance of its pair and the three
\* surface-wave times origin + distance / speed, whether the travel-time
\* lookup raises or not; where it raises, P and S are the 2.0 km/s time.
C8_FallbackToRtwo ==
    \A i \in 1..Len(predictions), j \in 1..Len(earthquakes), k \in 1..Len(ifos) :
        (predictions[i].event_id = earthquakes[j].event_id /\ predictions[i].ifo = ifos[k].ifo) =>
            LET distance == gps2dist_azimuth(earthquakes[j].lat, earthquakes[j].lon,
                                             ifos[k].lat, ifos[k].lon)
            IN  /\ predictions[i].D * 1000 = distance
                /\ (predictions[i].R2p0 - earthquakes[j].date) * 2000 = distance
                /\ (predictions[i].R3p5 - earthquakes[j].date) * 3500 = distance
                /\ (predictions[i].R5p0 - earthquakes[j].date) * 5000 = distance
                /\ get_travel_times(earthquakes[j].depth, distance).raises =>
                      /\ predictions[i].P = predictions[i].R2p0
                      /\ predictions[i].S = predictions[i].R2p0

\* C8 witness: a row is stored for an event below the model's depth range, at
\* a positive distance, next to a row whose P and S came from the lookup.
C8_Witness ==
    /\ \E i \in 1..Len(predictions), j \in 1..Len(earthquakes) :
          /\ predictions[i].event_id = earthquakes[j].event_id
          /\ earthquakes[j].depth > MaxSourceDepth
          /\ predictions[i].D > 0
          /\ predictions[i].P = predictions[i].R2p0
    /\ \E i \in 1..Len(predictions) : predictions[i].P < predictions[i].R5p0

C10_MarkersObeyedAfterFirstCycle ==
    [][(AtCheck /\ cycle >= 2 /\ AtDir.marker /\ pc' # "stopped") => sub' # "parse"]_vars

----------------------------------------------------------------------------
\* The pair the reconcile loops are at
AtPair == pc = "reconcile" /\ ~LoopDone(ei, earthquakes) /\ di <= Len(ifos)

\* C11: whenever the reconciler is at a pair, the training file that
\* compute_amplitudes selects for the detector is the LLO file when the
\* detector is named LLO and the LHO file for every other detector.
C11_TrainFileByDetector ==
    AtPair =>
        trainFile(ifos[di]) =
            IF ifos[di].ifo = "LLO"
            THEN "LLO_processed_USGS_global_EQ_catalogue.csv"
            ELSE "LHO_processed_USGS_global_EQ_catalogue.csv"
----------------------------------------------------------------------------
\* The purge at the edge of its threshold

\* Modification times at and around PurgeDays before the first purge.
PurgeTimes == {T0, T0 - PurgeDays * Day, T0 - PurgeDays * Day - 1, T0 - (PurgeDays + 1) * Day}

\* Feeds whose two event folders each hold one time folder with a well-formed
\* recent report, folder and time folder of any of the ages above.
PurgeFeeds ==
    { fd \in [Folders -> [exists : {TRUE}, mtime : PurgeTimes,
                          tfs : [TimeParts -> {Dir("qA", "absent", m) : m \in PurgeTimes} \cup {NoDir}]]] :
        \A f \in Folders : fd[f].tfs[1].exists /\ ~fd[f].tfs[2].exists }

PurgeInit == InitWith(PurgeFeeds)

PurgeSpec == PurgeInit /\ [][Next]_vars

\* A step of run_seismon's purge command
PurgeStep == pc = "purge" /\ args.purge /\ pc' = "scan"

----------------------------------------------------------------------------
\* A predictions row with every column set
FullyPopulated(row) ==
    /\ DOMAIN row = {"event_id", "ifo", "D", "P", "S", "R2p0", "R3p5", "R5p0", "Rfamp", "Lockloss"}
    /\ row.D >= 0
    /\ row.P > 0 /\ row.S > 0
    /\ row.R2p0 > 0 /\ row.R3p5 > 0 /\ row.R5p0 > 0
    /\ row.Rfamp >= 0
    /\ row.Lockloss \in {0, 1}

\* C13: a cycle that ends early, by an error or by the process being killed,
\* keeps every earthquakes and predictions row as it was; between the
\* travel-time phase and the commit the pair being computed has no row; and
\* every row ever stored has all its columns set.
C13_FailureKeepsRows ==
    /\ [](\A i \in 1..Len(predictions) : FullyPopulated(predictions[i]))
    /\ []((AtPair /\ sub = "amp") =>
             PredictionsFor(predictions, earthquakes[ei].event_id, ifos[di].ifo) = {})
    /\ [][(pc # "stopped" /\ pc' = "stopped") =>
             (earthquakes' = earthquakes /\ predictions' = predictions)]_vars

\* The process has stopped with an event whose first pair has its row and
\* whose second pair, for which compute_amplitudes fails, has none.
C13_Witness ==
    /\ pc = "stopped"
    /\ \E i \in 1..Len(earthquakes) :
          /\ compute_amplitudes(earthquakes[i], ifos[2]).raised
          /\ PredictionsFor(predictions, earthquakes[i].event_id, ifos[1].ifo) # {}
          /\ PredictionsFor(predictions, earthquakes[i].event_id, ifos[2].ifo) = {}
----------------------------------------------------------------------------
\* C14: when the report of a time folder parses to no attributes or lacks GPS
\* or Magnitude, the scan ends there: the step inserts no event, keeps the
\* events recorded so far, marks no further time folder and hands over to the
\* reconcile loops, which neither mark a time folder nor insert an event.
C14_MalformedAbortsScan ==
    [][/\ (pc = "scan" /\ sub = "parse" /\ pc' # "stopped"
           /\ Malformed(ParseDir(AtDir, Head(todo)[1])))
          => (pc' = "reconcile" /\ todo' = << >> /\ feed' = feed /\ earthquakes' = earthquakes)
       /\ pc = "reconcile" => (feed' = feed /\ earthquakes' = earthquakes)]_vars

\* The first scan of a process started with --init_db has ended at a malformed
\* report, leaving a time folder with a well-formed report unmarked and its
\* event unrecorded.
C14_Witness ==
    /\ pc = "reconcile"
    /\ args.init_db
    /\ cycle = 1
    /\ \E f, g \in Folders, t, u \in TimeParts :
          /\ feed[f].tfs[t].exists
          /\ feed[f].tfs[t].marker
          /\ Malformed(ParseDir(feed[f].tfs[t], f))
          /\ feed[g].tfs[u].exists
          /\ ~feed[g].tfs[u].marker
          /\ ~Malformed(ParseDir(feed[g].tfs[u], g))
          /\ EarthquakesById(earthquakes, g) = {}
----------------------------------------------------------------------------
\* C15: in every Prediction row of a pair at a positive distance the three
\* surface-wave times are later than the event's origin and ordered
\* R5p0 <= R3p5 <= R2p0, the time since the origin being the distance over the
\* speed of 5.0, 3.5 and 2.0 km/s.
C15_SurfaceWaveOrder ==
    \A i \in 1..Len(predictions), j \in 1..Len(earthquakes) :
        (predictions[i].event_id = earthquakes[j].event_id /\ predictions[i].D > 0) =>
            LET origin == earthquakes[j].date
                row    == predictions[i]
            IN  /\ origin < row.R5p0
                /\ row.R5p0 <= row.R3p5
                /\ row.R3p5 <= row.R2p0
                /\ (row.R5p0 - origin) * 50 = row.D * 10
                /\ (row.R3p5 - origin) * 35 = row.D * 10
                /\ (row.R2p0 - origin) * 20 = row.D * 10

\* A row of a pair at a positive distance is stored, its three surface-wave
\* times apart.
C15_Witness ==
    \E i \in 1..Len(predictions), j \in 1..Len(earthquakes) :
        /\ predictions[i].event_id = earthquakes[j].event_id
        /\ predictions[i].D > 0
        /\ earthquakes[j].date < predictions[i].R5p0
        /\ predictions[i].R5p0 < predictions[i].R3p5
        /\ predictions[i].R3p5 < predictions[i].R2p0
----------------------------------------------------------------------------
\* C16: a step of the scan leaves the Prediction Store and the Detector
\* Registry as they are and changes nothing of the feed but markers (and the
\* modification time of the time folder a marker is written in); a step of
\* the reconcile loops leaves the Event Store, the Detector Registry and the
\* feed as they are; no step of a running process changes the Detector
\* Registry.
C16_Frame ==
    [][/\ pc = "scan" =>
             /\ predictions' = predictions
             /\ ifos' = ifos
             /\ \A f \in Folders :
                   /\ feed'[f].exists = feed[f].exists
                   /\ feed'[f].mtime = feed[f].mtime
                   /\ \A t \in TimeParts :
                         /\ feed'[f].tfs[t].exists = feed[f].tfs[t].exists
                         /\ feed'[f].tfs[t].eqxml = feed[f].tfs[t].eqxml
                         /\ feed'[f].tfs[t].quakeml = feed[f].tfs[t].quakeml
       /\ pc = "reconcile" =>
             /\ earthquakes' = earthquakes
             /\ ifos' = ifos
             /\ feed' = feed
       /\ pc # "stopped" => ifos' = ifos]_vars

\* The first cycle of a process started with --init_db has marked a time
\* folder, recorded an event and stored its predictions.
C16_Witness ==
    /\ pc = "sleep"
    /\ args.init_db
    /\ cycle = 1
    /\ ifos = ingest_ifos
    /\ Len(earthquakes) >= 1
    /\ Len(predictions) >= Len(ifos)
    /\ \E f \in Folders, t \in TimeParts : feed[f].tfs[t].exists /\ feed[f].tfs[t].marker
----------------------------------------------------------------------------
\* The outcomes of the travel-time lookup

\* Feeds of recent time folders whose reports bring every outcome of the
\* lookup: both phases, an error, no compressional arrival, no shear arrival,
\* no arrival.
OracleFeeds ==
    FeedsOf({Dir("qA", "absent", T0), Dir("absent", "qB", T0), Dir("qNoP", "absent", T0),
             Dir("qNoS", "absent", T0), Dir("qNone", "absent", T0)}, {T0})

OracleInit == InitWith(OracleFeeds)

OracleSpec == OracleInit /\ [][Next]_vars

\* C17: whenever the reconcile loops are at a pair without a row, the
\* travel-time phase for it ends without an error and gives a P and an S time,
\* whatever the outcome of the lookup.
C17_TravelTimesNeverFail ==
    (AtPair /\ sub = "check"
       /\ NeedsPrediction(predictions, earthquakes[ei].event_id, ifos[di].ifo)) =>
        LET tt == compute_traveltimes(earthquakes[ei], ifos[di])
        IN  ~tt.raised /\ tt.Ptime # -1 /\ tt.Stime # -1
----------------------------------------------------------------------------
\* C18: the scan writes the marker of a time folder it does not skip before it
\* parses the report, and no step of the scan takes a marker away, so the
\* marker is there after the scan whatever came of the report; the report
\* parsed is eqxml.xml when that file is there, and quakeml.xml only when it
\* is not.
C18_MarkerBeforeParse ==
    /\ []((pc = "scan" /\ sub = "parse") => AtDir.marker)
    /\ [][/\ (AtCheck /\ ~SkipOnMarker(Repeat, AtDir) /\ pc' # "stopped") =>
                /\ feed'[Head(todo)[1]].tfs[Head(todo)[2]].marker
                /\ earthquakes' = earthquakes
          /\ pc = "scan" =>
                \A f \in Folders, t \in TimeParts :
                    feed[f].tfs[t].marker => feed'[f].tfs[t].marker
          /\ (pc = "scan" /\ sub = "parse" /\ pc' # "stopped") =>
                LET f      == Head(todo)[1]
                    parsed == IF AtDir.eqxml # "absent" THEN read_eqxml(AtDir.eqxml, f)
                              ELSE read_quakeml(AtDir.quakeml, f)
                IN  IF Malformed(parsed)
                    THEN pc' = "reconcile" /\ earthquakes' = earthquakes
                    ELSE Added(earthquakes, earthquakes') \subseteq {Earthquake(parsed)}]_vars

\* A scan has ended at a marked time folder whose eqxml.xml lacks the
\* magnitude and whose quakeml.xml is well-formed, with no event recorded for
\* it, after recording the event of a marked time folder that holds
\* quakeml.xml only.
C18_Witness ==
    /\ pc = "reconcile"
    /\ \E f, g \in Folders, t, u \in TimeParts :
          /\ feed[f].tfs[t].marker
          /\ feed[f].tfs[t].eqxml # "absent"
          /\ Malformed(read_eqxml(feed[f].tfs[t].eqxml, f))
          /\ ~Malformed(read_quakeml(feed[f].tfs[t].quakeml, f))
          /\ EarthquakesById(earthquakes, f) = {}
          /\ feed[g].tfs[u].marker
          /\ feed[g].tfs[u].eqxml = "absent"
          /\ feed[g].tfs[u].quakeml # "absent"
          /\ EarthquakesById(earthquakes, g) # {}
----------------------------------------------------------------------------
\* C19 as claimed: the purge removes the event folders older than the
\* threshold and nothing else; a time folder inside an event folder within
\* the threshold stays, whatever its own modification time.
C19_OnlyImmediateSubdirectories ==
    [][PurgeStep =>
        \A f \in Folders, t \in TimeParts :
            (feed[f].exists /\ now - feed[f].mtime <= PurgeDays * Day /\ feed[f].tfs[t].exists)
                => feed'[f].tfs[t].exists]_vars

\* C19 amended: the purge removes every directory below the feed root, at any
\* depth, that is 8 days old or older, with all it holds: a time folder goes
\* when it or its event folder is that old, and stays otherwise.
C19_EveryOldDirectory ==
    [][PurgeStep =>
        \A f \in Folders, t \in TimeParts :
            feed[f].tfs[t].exists =>
                (feed'[f].tfs[t].exists <=>
                    /\ now - feed[f].mtime < (PurgeDays + 1) * Day
                    /\ now - feed[f].tfs[t].mtime < (PurgeDays + 1) * Day)]_vars

\* A purge has removed the time folder of an event folder and kept the event
\* folder.
C19_Witness ==
    /\ pc = "scan"
    /\ log = <<"purge">>
    /\ \E f \in Folders :
          /\ feed[f].exists
          /\ \A t \in TimeParts : ~feed[f].tfs[t].exists
----------------------------------------------------------------------------
\* make_prediction fails for the pair
AmplitudeFails(earthquake, ifo) ==
    make_prediction(trainFile(ifo), earthquake.lat, earthquake.lon, earthquake.magnitude,
                    earthquake.depth, ifo.lat, ifo.lon, locklossMotionThresh).raises

\* C20: the step of the amplitude phase for a pair for which make_prediction
\* fails ends the process with the Prediction Store as it was; and as long as
\* it fails for a pair, neither that pair nor any pair after it in the order
\* of the loops, events in table order and detectors in table order within an
\* event, has a row, in any cycle of any process.
C20_FailureBlocksLaterPairs ==
    /\ [][(AtPair /\ sub = "amp" /\ AmplitudeFails(earthquakes[ei], ifos[di])) =>
             (pc' = "stopped" /\ predictions' = predictions)]_vars
    /\ [](\A i \in 1..Len(earthquakes), k \in 1..Len(ifos) :
             AmplitudeFails(earthquakes[i], ifos[k]) =>
                 \A j \in 1..Len(earthquakes), l \in 1..Len(ifos) :
                     (j > i \/ (j = i /\ l >= k)) =>
                         PredictionsFor(predictions, earthquakes[j].event_id, ifos[l].ifo) = {})

\* A day after the event's time folder was marked, a process is again in the
\* amplitude phase of the failing pair, the second of its event, the first
\* pair having its row and a later event none.
C20_Witness ==
    /\ now > T0
    /\ AtPair
    /\ sub = "amp"
    /\ di > 1
    /\ ei < Len(earthquakes)
    /\ AmplitudeFails(earthquakes[ei], ifos[di])
    /\ PredictionsFor(predictions, earthquakes[ei].event_id, ifos[1].ifo) # {}
    /\ \E t \in TimeParts :
          /\ feed[earthquakes[ei].event_id].tfs[t].marker
          /\ feed[earthquakes[ei].event_id].tfs[t].mtime < now
====
